---- MODULE Spec2Model ----
(***************************************************************************)
(* A model of pyeit/mesh/distmesh.py: the DISTMESH session object and the  *)
(* relaxation driver build().                                              *)
(*                                                                         *)
(* Arithmetic.  The code computes in floating point; the model computes in *)
(* fixed point: one length unit is h0/1000, coordinates are integers,      *)
(* dist() is the integer square root of the sum of squares, and a division *)
(* truncates toward zero.  Fractional parameters are carried as integers:  *)
(* Fscale and deltat in tenths, dptol in thousandths, ttol in tenths.      *)
(*                                                                         *)
(* Arrays.  A numpy array of rows is a sequence (row k of the array is     *)
(* element k+1 of the sequence); the indices stored in t and bars are the  *)
(* 0-based indices the code stores.                                        *)
(*                                                                         *)
(* The triangulation oracle (scipy.spatial.Delaunay) is external: it is    *)
(* modelled by every triangulation of the given points into non-degenerate *)
(* counterclockwise triangles (Delaunay or not), and it raises when the    *)
(* points do not span the plane.                                           *)
(***************************************************************************)
EXTENDS Integers, Sequences, FiniteSets, TLC

\* ------------------------------------------------------------------ bounds
\* maxiter is drawn from 0..MaxIter
MaxIter == 3
\* densityctrlfreq is drawn from 1..MaxFreq
MaxFreq == 2

\* --------------------------------------------------------- program constants
\* h0, in length units (one unit is h0/1000)
H0 == 1000
\* np.inf, the value pold is (re)initialised with
Inf == 1000000000
\* ttol = 0.1, in tenths
TtolTenths == 1
\* deltat = 0.2, in tenths
DeltatTenths == 2

\* geps = 0.001 * h0
geps == (1 * H0) \div 1000

\* bbox = [[x0, y0], [x1, y1]]
bbox == << <<0, 0>>, <<2 * H0, 1732>> >>

\* list(combinations(range(Ndim+1), 2)) for Ndim = 2, as positions in a simplex
edge_combinations == { <<1, 2>>, <<1, 3>>, <<2, 3>> }

\* ------------------------------------------------------------------ inputs
\* the caller's fixed-point lists: none, one on a lattice point, one close to
\* a lattice point, one outside the domain (its distance-field value is > 0),
\* and two of them together
PfixChoices ==
    { << >>, << <<0, 0>> >>, << <<100, 0>> >>, << <<2000, 866>> >>,
      << <<0, 0>>, <<2000, 866>> >> }
\* the caller's distance fields fd(x, y) = x - b (the half plane x < b):
\* b = 1200 keeps three of the four lattice points, b = -500 keeps none
FdChoices == { 1200, -500 }
\* Fscale, in tenths
FscaleChoices == { 15, 25 }
\* dptol, in thousandths
DptolChoices == { 1, 200 }
\* the caller's density fields: fh = 1 everywhere, or fh = 1 + floor(x / h0)
FhChoices == { "uniform", "graded" }

VARIABLES
    pc,               \* position of build(): init, loop, tri, bar, move, final,
                      \* done (returned), error (an exception left build)
    err,              \* the call that raised, "" while none has
    fdB, fhKind, pfix, Fscale, dptol, densityctrlfreq, maxiter,   \* arguments of build()
    p, N, nfix, pold, t, bars,                            \* fields of DISTMESH
    i, Ftot, converge,                                    \* locals of build()
    ptri              \* history: where each current point was at the latest triangulate()

args == <<fdB, fhKind, pfix, Fscale, dptol, densityctrlfreq, maxiter>>
dm == <<p, N, nfix, pold, t, bars>>
vars == <<pc, err, fdB, fhKind, pfix, Fscale, dptol, densityctrlfreq, maxiter,
          p, N, nfix, pold, t, bars, i, Ftot, converge, ptri>>

\* ----------------------------------------------------------------- helpers
Quot(a, b) == IF a >= 0 THEN a \div b ELSE -((-a) \div b)

RECURSIVE ISqrtR(_, _, _)
ISqrtR(n, lo, hi) ==
    IF lo >= hi THEN lo
    ELSE LET mid == (lo + hi + 1) \div 2
         IN IF mid * mid <= n THEN ISqrtR(n, mid, hi) ELSE ISqrtR(n, lo, mid - 1)
ISqrt(n) == ISqrtR(n, 0, 46340)

\* utils.dist on one row: the Euclidean length of a vector
dist(v) == IF v[1] = Inf \/ v[1] = -Inf \/ v[2] = Inf \/ v[2] = -Inf
           THEN Inf
           ELSE ISqrt(v[1] * v[1] + v[2] * v[2])

Sub(a, b) == IF b[1] = Inf THEN <<-Inf, -Inf>> ELSE <<a[1] - b[1], a[2] - b[2]>>
Add(a, b) == <<a[1] + b[1], a[2] + b[2]>>

MaxOf(S) == CHOOSE m \in S : \A x \in S : x <= m
MinOf(S) == CHOOSE m \in S : \A x \in S : m <= x

RECURSIVE SumSeq(_)
SumSeq(s) == IF Len(s) = 0 THEN 0 ELSE Head(s) + SumSeq(Tail(s))

\* a set of integers as the ascending sequence numpy returns
RECURSIVE SortedSeq(_)
SortedSeq(S) ==
    IF S = {} THEN << >>
    ELSE LET m == MinOf(S) IN <<m>> \o SortedSeq(S \ {m})

\* np.setdiff1d(a, b): the sorted unique values of a that are not in b
setdiff1d(A, B) == SortedSeq(A \ B)

\* arr[idx] for a sequence idx of 0-based row indices
Take(arr, idx) == [k \in 1..Len(idx) |-> arr[idx[k] + 1]]

\* np.inf * np.ones((n, Ndim))
InfRows(n) == [k \in 1..n |-> <<Inf, Inf>>]

\* ------------------------------------------------------ the caller's fields
\* the distance field: negative inside, positive outside
FD(pt) == pt[1] - fdB
\* the density field: positive everywhere
FH(pt) == IF fhKind = "uniform" THEN 1 ELSE 1 + (IF pt[1] > 0 THEN pt[1] \div H0 ELSE 0)

\* utils.edge_project: fd(p) times the symmetric-difference gradient of fd
edge_project(pt) ==
    LET gx == Quot(FD(<<pt[1] + 1, pt[2]>>) - FD(<<pt[1] - 1, pt[2]>>), 2)
        gy == Quot(FD(<<pt[1], pt[2] + 1>>) - FD(<<pt[1], pt[2] - 1>>), 2)
    IN <<FD(pt) * gx, FD(pt) * gy>>

\* ----------------------------------------------------- initial point sampler
\* np.arange(lo, hi, step) as the number of its elements
ARangeLen(lo, hi, step) == IF hi <= lo THEN 0 ELSE ((hi - lo - 1) \div step) + 1

bbox2d(h0, bb) ==
    LET nx == ARangeLen(bb[1][1], bb[2][1], h0)
        dy == (h0 * 1732) \div 2000
        ny == ARangeLen(bb[1][2], bb[2][2], dy)
    IN [k \in 1..(nx * ny) |->
          LET r == (k - 1) \div nx
              c == (k - 1) % nx
          IN << bb[1][1] + c * h0 + (IF r % 2 = 1 THEN h0 \div 2 ELSE 0),
                bb[1][2] + r * dy >> ]

\* the index sequences the rejection step can keep: rand() < r0 / max(r0) holds
\* for sure where r0 is the maximum (fh is least) and may fail elsewhere
Selections(pts) ==
    LET least == MinOf({FH(pts[k]) : k \in 1..Len(pts)})
        sure == {k \in 1..Len(pts) : FH(pts[k]) = least}
        maybe == (1..Len(pts)) \ sure
    IN { SortedSeq(sure \cup m) : m \in SUBSET maybe }

remove_duplicate_nodes(pts, fix, eps) ==
    SelectSeq(pts, LAMBDA q : \A r \in 1..Len(fix) : dist(Sub(q, fix[r])) > eps)

\* ------------------------------------------------------------ triangulation
Cross(a, b, c) == (b[1] - a[1]) * (c[2] - a[2]) - (b[2] - a[2]) * (c[1] - a[1])

\* the simplices the oracle can return, vertices counterclockwise
Simplices(pts) ==
    { IF Cross(pts[s[1] + 1], pts[s[2] + 1], pts[s[3] + 1]) > 0
      THEN s ELSE <<s[1], s[3], s[2]>> :
      s \in { u \in (0..Len(pts) - 1) \X (0..Len(pts) - 1) \X (0..Len(pts) - 1) :
                /\ u[1] < u[2] /\ u[2] < u[3]
                /\ Cross(pts[u[1] + 1], pts[u[2] + 1], pts[u[3] + 1]) # 0 } }

Sgn(x) == IF x > 0 THEN 1 ELSE IF x < 0 THEN -1 ELSE 0

Verts(s) == {s[1], s[2], s[3]}

\* no other point of pts lies strictly inside the simplex s
EmptySimplex(pts, s) ==
    \A q \in (0..Len(pts) - 1) \ Verts(s) :
        ~ /\ Cross(pts[s[1] + 1], pts[s[2] + 1], pts[q + 1]) > 0
          /\ Cross(pts[s[2] + 1], pts[s[3] + 1], pts[q + 1]) > 0
          /\ Cross(pts[s[3] + 1], pts[s[1] + 1], pts[q + 1]) > 0

\* the edges of a simplex, each with the vertex opposite to it
EdgesOf(s) == { <<s[1], s[2], s[3]>>, <<s[2], s[3], s[1]>>, <<s[3], s[1], s[2]>> }

\* two simplices do not overlap: an edge of one of them separates them
Compatible(pts, s1, s2) ==
    \E pair \in { <<s1, s2>>, <<s2, s1>> } :
        \E e \in EdgesOf(pair[1]) :
            \A v \in Verts(pair[2]) :
                Sgn(Cross(pts[e[1] + 1], pts[e[2] + 1], pts[e[3] + 1]))
                  * Sgn(Cross(pts[e[1] + 1], pts[e[2] + 1], pts[v + 1])) <= 0

\* Delaunay(pts).simplices: the possible results; none when the oracle raises.
\* A result is a triangulation of pts: empty simplices that do not overlap,
\* and no further simplex fits.
Delaunay(pts) ==
    LET cand == { s \in Simplices(pts) : EmptySimplex(pts, s) }
        clash == { pr \in cand \X cand :
                     pr[1] # pr[2] /\ ~ Compatible(pts, pr[1], pr[2]) }
    IN { T \in (SUBSET cand) \ {{}} :
           /\ \A s1 \in T : \A s2 \in T : <<s1, s2>> \notin clash
           /\ \A s \in cand \ T : \E s2 \in T : <<s, s2>> \in clash }

\* np.mean(pts[tri], axis=1) for one simplex
Centroid(pts, s) ==
    << Quot(pts[s[1] + 1][1] + pts[s[2] + 1][1] + pts[s[3] + 1][1], 3),
       Quot(pts[s[1] + 1][2] + pts[s[2] + 1][2] + pts[s[3] + 1][2], 3) >>

delaunay(pts, tri) == { s \in tri : FD(Centroid(pts, s)) < -geps }

\* np.sort(bars, axis=1) on one row
SortRow(b) == IF b[1] <= b[2] THEN b ELSE <<b[2], b[1]>>

PairLess(a, b) == a[1] < b[1] \/ (a[1] = b[1] /\ a[2] < b[2])

\* np.unique on rows: ascending, each row once
RECURSIVE UniqueRows(_)
UniqueRows(S) ==
    IF S = {} THEN << >>
    ELSE LET m == CHOOSE x \in S : \A y \in S \ {x} : PairLess(x, y)
         IN <<m>> \o UniqueRows(S \ {m})

BarsOfUnsorted(tt) ==
    UniqueRows({ <<s[e[1]], s[e[2]]>> : s \in tt, e \in edge_combinations })

BarsOf(tt) ==
    UniqueRows({ SortRow(<<s[e[1]], s[e[2]]>>) : s \in tt, e \in edge_combinations })

\* -------------------------------------------------------------- force model
\* bar_length: barvec, L, hbars and L0, one entry per bar
barvecOf(pp, bb) == [k \in 1..Len(bb) |-> Sub(pp[bb[k][1] + 1], pp[bb[k][2] + 1])]

LOf(pp, bb) == [k \in 1..Len(bb) |-> dist(barvecOf(pp, bb)[k])]

hbarsOf(pp, bb) ==
    [k \in 1..Len(bb) |->
        LET s == Add(pp[bb[k][1] + 1], pp[bb[k][2] + 1])
        IN FH(<<Quot(s[1], 2), Quot(s[2], 2)>>)]

L0Of(pp, bb) ==
    LET Lq == LOf(pp, bb)
        hq == hbarsOf(pp, bb)
        sumL2 == SumSeq([k \in 1..Len(bb) |-> Lq[k] * Lq[k]])
        sumh2 == SumSeq([k \in 1..Len(bb) |-> hq[k] * hq[k]])
    IN [k \in 1..Len(bb) |-> Quot(hq[k] * Fscale * ISqrt(Quot(sumL2, sumh2)), 10)]

\* (L0 > 2*L), as the set of flagged bar positions
ixout(Lq, L0q) == {k \in 1..Len(Lq) : L0q[k] > 2 * Lq[k]}

\* Fvec = np.maximum(L0 - L, 0) * (barvec / L)
FvecOf(Lq, L0q, bv) ==
    [k \in 1..Len(Lq) |->
        LET F == IF L0q[k] - Lq[k] > 0 THEN L0q[k] - Lq[k] ELSE 0
        IN <<Quot(F * bv[k][1], Lq[k]), Quot(F * bv[k][2], Lq[k])>>]

\* the (row, col, value) entries handed to csr_matrix, bar by bar:
\* data = hstack([Fvec, -Fvec]), rows = bars[:, [0, 0, 1, 1]], cols = [0, 1, 0, 1]
EntriesSameSign(bb, Fv) ==
    [e \in 1..(4 * Len(bb)) |->
        LET k == ((e - 1) \div 4) + 1
            j == (e - 1) % 4
        IN << bb[k][IF j < 2 THEN 1 ELSE 2], j % 2, Fv[k][(j % 2) + 1] >>]

Entries(bb, Fv) ==
    [e \in 1..(4 * Len(bb)) |->
        LET k == ((e - 1) \div 4) + 1
            j == (e - 1) % 4
        IN << bb[k][IF j < 2 THEN 1 ELSE 2], j % 2,
              IF j < 2 THEN Fv[k][(j % 2) + 1] ELSE -Fv[k][(j % 2) + 1] >>]

\* csr_matrix(...).toarray(): entries at the same (row, col) are summed
ToArray(ent, n) ==
    [r \in 1..n |->
        << SumSeq([e \in 1..Len(ent) |->
                     IF ent[e][1] = r - 1 /\ ent[e][2] = 0 THEN ent[e][3] ELSE 0]),
           SumSeq([e \in 1..Len(ent) |->
                     IF ent[e][1] = r - 1 /\ ent[e][2] = 1 THEN ent[e][3] ELSE 0]) >>]

\* Ftot[0:len(self.pfix)] = 0
ZeroFixed(F, fix) == [r \in 1..Len(F) |-> IF r <= Len(fix) THEN <<0, 0>> ELSE F[r]]

bar_force(Lq, L0q, bv) ==
    ZeroFixed(ToArray(Entries(bars, FvecOf(Lq, L0q, bv)), N), pfix)

\* --------------------------------------------------------- density control
\* the bar endpoints np.setdiff1d removes from the Point Set
ixdelAll(bb, Lq, L0q, nf) ==
    setdiff1d({bb[k][c] : k \in ixout(Lq, L0q), c \in {1, 2}}, {})

ixdel(bb, Lq, L0q, nf) ==
    setdiff1d({bb[k][c] : k \in ixout(Lq, L0q), c \in {1, 2}}, 0..(nf - 1))

Range(s) == {s[k] : k \in 1..Len(s)}

\* ---------------------------------------------------------- retriangulation
\* np.max(dist(self.p - self.pold)); np.max raises on an array with no rows
MaxDrift(pp, po) == MaxOf({dist(Sub(pp[k], po[k])) : k \in 1..Len(pp)})

is_retriangulate ==
    IF N = 0 THEN "raise"
    ELSE IF MaxDrift(p, pold) > (H0 * TtolTenths) \div 10 THEN "true" ELSE "false"

\* triangulate() on the points pts; build() goes on at `next` unless the oracle raises
triangulateNoSnapshot(pts, next) ==
    /\ UNCHANGED pold
    /\ LET results == Delaunay(pts)
       IN IF results = {}
          THEN /\ pc' = "error" /\ err' = "Delaunay"
               /\ UNCHANGED <<t, bars, ptri>>
          ELSE \E tri \in results :
               /\ t' = delaunay(pts, tri)
               /\ bars' = BarsOf(delaunay(pts, tri))
               /\ ptri' = pts
               /\ pc' = next /\ err' = err

triangulate(pts, next) ==
    /\ pold' = pts
    /\ LET results == Delaunay(pts)
       IN IF results = {}
          THEN /\ pc' = "error" /\ err' = "Delaunay"
               /\ UNCHANGED <<t, bars, ptri>>
          ELSE \E tri \in results :
               /\ t' = delaunay(pts, tri)
               /\ bars' = BarsOf(delaunay(pts, tri))
               /\ ptri' = pts
               /\ pc' = next /\ err' = err

\* ------------------------------------------------------------------- actions
Init ==
    /\ pc = "init" /\ err = ""
    /\ fdB \in FdChoices
    /\ fhKind \in FhChoices
    /\ pfix \in PfixChoices
    /\ Fscale \in FscaleChoices
    /\ dptol \in DptolChoices
    /\ densityctrlfreq \in 1..MaxFreq
    /\ maxiter \in 0..MaxIter
    /\ p = << >> /\ N = 0 /\ nfix = 0 /\ pold = << >>
    /\ t = {} /\ bars = << >>
    /\ i = 0 /\ Ftot = << >> /\ converge = FALSE
    /\ ptri = << >>

\* DISTMESH.__init__, called first by build()
Construct ==
    /\ pc = "init"
    /\ LET inside == SelectSeq(bbox2d(H0, bbox), LAMBDA q : FD(q) < geps)
       IN IF Len(inside) = 0
          THEN \* np.max(r0) raises on the empty array
               /\ pc' = "error" /\ err' = "sampler"
               /\ UNCHANGED dm
               /\ UNCHANGED ptri
          ELSE \E sel \in Selections(inside) :
               LET p0 == Take(inside, [k \in 1..Len(sel) |-> sel[k] - 1])
                   p1 == IF Len(pfix) > 0
                         THEN pfix \o remove_duplicate_nodes(p0, pfix, geps)
                         ELSE p0
               IN /\ nfix' = Len(pfix)
                  /\ N' = Len(p1)
                  /\ p' = p1
                  /\ triangulate(p1, "loop")
    /\ UNCHANGED <<args, i, Ftot, converge>>

\* for i in range(maxiter): whether the range is exhausted
LoopDoneEarly == i + 1 >= maxiter

LoopDone == i = maxiter

LoopExit ==
    /\ pc = "loop"
    /\ LoopDone
    /\ pc' = "final"
    /\ UNCHANGED <<err, args, dm, i, Ftot, converge, ptri>>

\* if dm.is_retriangulate():
TestRetriangulate ==
    /\ pc = "loop"
    /\ ~ LoopDone
    /\ CASE is_retriangulate = "raise" -> pc' = "error" /\ err' = "is_retriangulate"
         [] is_retriangulate = "true" -> pc' = "tri" /\ err' = err
         [] OTHER -> pc' = "bar" /\ err' = err
    /\ UNCHANGED <<args, dm, i, Ftot, converge, ptri>>

\* dm.triangulate() inside the loop
Triangulate ==
    /\ pc = "tri"
    /\ triangulate(p, "bar")
    /\ UNCHANGED <<args, p, N, nfix, i, Ftot, converge>>

\* where build() goes on after density_control: continue
AfterDensityFallThrough == "bar"

AfterDensity == "loop"

\* bar_length, then (i % densityctrlfreq) == 0 and (L0 > 2*L).any()
DensityDue ==
    /\ (i % densityctrlfreq) = 0
    /\ ixout(LOf(p, bars), L0Of(p, bars)) # {}

\* bar_length, then the density-control branch of the iteration
DensityControl ==
    /\ pc = "bar"
    /\ DensityDue
    /\ LET keep == setdiff1d(0..(N - 1),
                             Range(ixdel(bars, LOf(p, bars), L0Of(p, bars), nfix)))
       IN /\ p' = Take(p, keep)
          /\ N' = Len(keep)
          /\ pold' = InfRows(Len(keep))
          /\ ptri' = Take(ptri, keep)
    /\ i' = i + 1
    /\ pc' = AfterDensity
    /\ UNCHANGED <<err, args, nfix, t, bars, Ftot, converge>>

\* bar_length, then bar_force.  A bar of length zero makes barvec / L
\* not-a-number (a violated precondition of the force model): the model does
\* not follow build() beyond that point.
BarForce ==
    /\ pc = "bar"
    /\ ~ DensityDue
    /\ IF \E k \in 1..Len(bars) : LOf(p, bars)[k] = 0
       THEN /\ pc' = "error" /\ err' = "nan"
            /\ UNCHANGED Ftot
       ELSE /\ Ftot' = bar_force(LOf(p, bars), L0Of(p, bars), barvecOf(p, bars))
            /\ pc' = "move" /\ err' = err
    /\ UNCHANGED <<args, dm, i, converge, ptri>>

\* move_p, then the convergence test of build()
MoveP ==
    /\ pc = "move"
    /\ LET delta == [k \in 1..N |-> << Quot(DeltatTenths * Ftot[k][1], 10),
                                       Quot(DeltatTenths * Ftot[k][2], 10) >>]
           pm == [k \in 1..N |-> Add(p[k], delta[k])]
           d == [k \in 1..N |-> FD(pm[k])]
           ix_interior == {k \in 1..N : d[k] < -geps}
       IN /\ p' = [k \in 1..N |->
                     IF d[k] > 0 THEN Sub(pm[k], edge_project(pm[k])) ELSE pm[k]]
          /\ IF ix_interior = {}
             THEN \* np.max raises on the empty array
                  /\ pc' = "error" /\ err' = "move_p"
                  /\ UNCHANGED <<i, converge>>
             ELSE LET c == MaxOf({dist(delta[k]) : k \in ix_interior}) * 1000
                              < dptol * H0
                  IN /\ converge' = c
                     /\ pc' = IF c THEN "final" ELSE "loop"
                     /\ i' = IF c THEN i ELSE i + 1
                     /\ err' = err
    /\ UNCHANGED <<args, N, nfix, pold, t, bars, Ftot, ptri>>

\* the triangulate() after the loop, then return dm.p, dm.t
FinalNoTriangulate ==
    /\ pc = "final"
    /\ pc' = "done"
    /\ UNCHANGED <<err, args, dm, i, Ftot, converge, ptri>>

FinalTriangulate ==
    /\ pc = "final"
    /\ triangulate(p, "done")
    /\ UNCHANGED <<args, p, N, nfix, i, Ftot, converge>>

Next ==
    \/ Construct
    \/ LoopExit
    \/ TestRetriangulate
    \/ Triangulate
    \/ DensityControl
    \/ BarForce
    \/ MoveP
    \/ FinalTriangulate

Spec == Init /\ [][Next]_vars

\* ------------------------------------------------------------------- claims
\* build() has constructed the session: __init__ got past the sampler
Constructed == pc # "init" /\ err # "sampler"

\* a step in which triangulate() ran to its end
TriangulateRan ==
    \/ pc = "init" /\ pc' = "loop"
    \/ pc = "tri" /\ pc' = "bar"
    \/ pc = "final" /\ pc' = "done"

\* the drift that makes is_retriangulate true: h0 * ttol
DriftLimit == (H0 * TtolTenths) \div 10

\* C1: after construction and after every operation of every iteration of
\* build, the first nfix rows of the Point Set equal the caller's fixed points,
\* wherever the fixed points lie
C1_FixedPointsKept ==
    Constructed => /\ nfix = Len(pfix)
                   /\ \A k \in 1..nfix : p[k] = pfix[k]

\* C2: however build leaves its loop, the returned Simplex Set is a
\* triangulation of exactly the returned Point Set: its indices are in [0, N)
\* and no point moved or was deleted after the last triangulate()
C2_ReturnedMeshConsistent ==
    pc = "done" =>
        /\ N = Len(p)
        /\ pold = p
        /\ ptri = p
        /\ \A s \in t : \A j \in 1..3 : s[j] \in 0..(N - 1)
        /\ \E tri \in Delaunay(p) : t = delaunay(p, tri)

C2_Witness == pc = "done" /\ t # {} /\ i > 0 /\ Ftot # << >>

\* what is left of build(): the steps of the current iteration, the
\* iterations after it, and the final triangulate()
Remaining ==
    CASE pc = "init" -> 5 * maxiter + 8
      [] pc = "loop" -> 5 * (maxiter - i) + 6
      [] pc = "tri" -> 5 * (maxiter - i) + 5
      [] pc = "bar" -> 5 * (maxiter - i) + 4
      [] pc = "move" -> 5 * (maxiter - i) + 3
      [] pc = "final" -> 1
      [] OTHER -> 0

\* C3: build always ends: every step of it brings the end nearer, so it
\* returns or raises after finitely many steps.  It leaves the loop at the
\* first move_p that reports convergence and otherwise after exactly maxiter
\* iterations, the iterations spent on density control included; running out
\* of iterations is no error and leads to the final triangulate() with the
\* Point Set and Simplex Set as they are
C3_DriverTerminates ==
    [][ /\ Remaining' < Remaining /\ Remaining' >= 0
        /\ (pc = "move" /\ pc' # "error" => (converge' <=> pc' = "final"))
        /\ (pc = "move" /\ pc' = "loop" => i' = i + 1)
        /\ (pc = "bar" /\ pc' = "loop" => i' = i + 1)
        /\ (pc = "loop" => ((pc' = "final") <=> (i = maxiter)))
        /\ (pc = "loop" /\ i = maxiter => p' = p /\ t' = t /\ err' = "")
        /\ (pc' = "final" => pc \in {"move", "loop"})
        /\ (pc = "final" => pc' \in {"done", "error"} /\ p' = p)
        /\ i' <= maxiter ]_vars

C3_Witness == pc = "done" /\ maxiter > 0 /\ i = maxiter /\ ~converge

\* C4: density_control deletes exactly the non-fixed nodes that are an endpoint
\* of a bar with L0 > 2*L, deletes no fixed point, leaves nfix alone and keeps
\* the surviving points in their order, the fixed points still first
C4_DensityControlDeletes ==
    [][ pc = "bar" /\ pc' = "loop" =>
          LET Lq == LOf(p, bars)
              L0q == L0Of(p, bars)
              Del == { n \in 0..(N - 1) :
                         /\ n >= nfix
                         /\ \E k \in 1..Len(bars) :
                              /\ L0q[k] > 2 * Lq[k]
                              /\ (bars[k][1] = n \/ bars[k][2] = n) }
          IN /\ N' = N - Cardinality(Del)
             /\ Len(p') = N'
             /\ nfix' = nfix
             /\ \A n \in (0..(N - 1)) \ Del :
                    p'[n + 1 - Cardinality({d \in Del : d < n})] = p[n + 1]
             /\ \A n \in 0..(nfix - 1) : p'[n + 1] = p[n + 1]
             /\ \A k \in 1..Len(bars) :
                    L0q[k] > 2 * Lq[k] /\ bars[k][1] >= nfix /\ bars[k][2] >= nfix
                        => N' <= N - 2 ]_vars

C4_Witness ==
    /\ pc = "loop" /\ i > 0
    /\ pold = InfRows(N)
    /\ nfix > 0 /\ N > nfix
    /\ \E s \in t : \E j \in 1..3 : s[j] >= N

\* C5: right after every triangulate(), every index of the Simplex Set is a
\* valid index into the Point Set, every bar has its smaller index first, and
\* no two bars are the same unordered pair
C5_TriangulateIndices ==
    [][ TriangulateRan =>
          /\ \A s \in t' : \A j \in 1..3 : s[j] \in 0..(N' - 1)
          /\ \A k \in 1..Len(bars') :
                /\ bars'[k][1] < bars'[k][2]
                /\ bars'[k][1] \in 0..(N' - 1)
                /\ bars'[k][2] \in 0..(N' - 1)
          /\ \A k \in 1..Len(bars') : \A m \in 1..Len(bars') :
                k # m => {bars'[k][1], bars'[k][2]} # {bars'[m][1], bars'[m][2]}
          /\ { {bars'[k][1], bars'[k][2]} : k \in 1..Len(bars') }
               = { {s[e[1]], s[e[2]]} : s \in t', e \in edge_combinations } ]_vars

C5_Witness == pc = "bar" /\ pold = p /\ \E s \in t : s[2] > s[3]

\* no lattice point of the bounding box passes fd(p) < geps
NoLatticePointInside ==
    \A k \in 1..Len(bbox2d(H0, bbox)) : ~ (FD(bbox2d(H0, bbox)[k]) < geps)

\* C6: when no lattice point passes the domain test, the sampler does not fail
\* and the Point Set holds exactly the fixed points
C6_EmptyDomainKeepsFixedPoints ==
    pc # "init" /\ NoLatticePointInside =>
        /\ err # "sampler"
        /\ N = Len(pfix)
        /\ p = pfix

\* C7: in an iteration whose index is a multiple of densityctrlfreq and that
\* has a bar with L0 > 2*L, density control runs and nothing is moved and no
\* force computed; after it the session sees no operation but a
\* retriangulation (of the next iteration, or the final one), so no bar length
\* or force is computed from bars older than a deletion
C7_DensityThenRetriangulate ==
    [][ /\ ( /\ pc = "bar"
             /\ (i % densityctrlfreq) = 0
             /\ \E k \in 1..Len(bars) : L0Of(p, bars)[k] > 2 * LOf(p, bars)[k]
             => /\ pc' = "loop"
                /\ i' = i + 1
                /\ Ftot' = Ftot
                /\ pold' = InfRows(N')
                /\ \A k \in 1..Len(p') : \E m \in 1..Len(p) : p'[k] = p[m] )
        /\ ( Constructed /\ pc # "error" /\ pold = InfRows(N)
             => /\ pc \in {"loop", "tri", "final"}
                /\ pc' \in {"loop", "tri", "final", "bar", "done", "error"}
                /\ p' = p /\ N' = N /\ Ftot' = Ftot
                /\ (pc' \in {"loop", "tri", "final"} => t' = t /\ bars' = bars)
                /\ (pc' \in {"bar", "done"} =>
                       /\ pold' = p
                       /\ bars' = BarsOf(t')
                       /\ \E tri \in Delaunay(p) : t' = delaunay(p, tri)) ) ]_vars

C7_Witness == pc = "tri" /\ i > 0 /\ pold = InfRows(N) /\ N >= 3

\* C8, as claimed: triangulate() copies the positions into pold, a move never
\* changes pold, and at the start of every iteration a retriangulation is done
\* if and only if some point is farther than h0*ttol from where it was at the
\* latest triangulation
C8_RetriangulateIffDrift ==
    [][ /\ (pc \in {"init", "tri", "final"} /\ Constructed' => pold' = p')
        /\ (pc = "move" => pold' = pold)
        /\ (pc = "loop" /\ i < maxiter =>
              ((pc' = "tri") <=> (N > 0 /\ MaxDrift(p, ptri) > DriftLimit))) ]_vars

\* C8, amended: triangulate() copies the positions into pold, a move never
\* changes pold, and at the start of every iteration a retriangulation is done
\* if and only if the Point Set has a point and either some point is farther
\* than h0*ttol from where it was at the latest triangulation or density
\* control has run since that triangulation; with no point left the test raises
C8_RetriangulateIffDriftOrDeleted ==
    [][ /\ (pc \in {"init", "tri", "final"} /\ Constructed' => pold' = p')
        /\ (pc = "move" => pold' = pold)
        /\ (pc = "loop" /\ i < maxiter =>
              /\ ((pc' = "tri") <=>
                    (N > 0 /\ (MaxDrift(p, ptri) > DriftLimit \/ pold = InfRows(N))))
              /\ ((pc' = "error") <=> (N = 0))) ]_vars

C8_Witness ==
    /\ pc = "tri" /\ i > 0
    /\ pold # InfRows(N)
    /\ MaxDrift(p, ptri) > DriftLimit

\* F is what the claim says of bar_force for bars bb with lengths Lq, desired
\* lengths L0q, bar vectors bv and per-bar forces Fv, on n nodes, nf of them
\* fixed; raw is the accumulated array before the fixed rows are zeroed
ForceAccumulated(F, raw, bb, Lq, L0q, bv, Fv, n, nf) ==
    /\ Len(F) = n
    /\ \A r \in 1..n : \A c \in 1..2 :
          F[r][c] = IF r <= nf THEN 0
                    ELSE SumSeq([k \in 1..Len(bb) |->
                                   IF bb[k][1] = r - 1 THEN Fv[k][c] ELSE 0])
                         - SumSeq([k \in 1..Len(bb) |->
                                     IF bb[k][2] = r - 1 THEN Fv[k][c] ELSE 0])
    /\ \A c \in 1..2 : SumSeq([r \in 1..n |-> raw[r][c]]) = 0
    /\ \A k \in 1..Len(bb) :
          LET mag == IF L0q[k] > Lq[k] THEN L0q[k] - Lq[k] ELSE 0
          IN /\ \A c \in 1..2 : Fv[k][c] * Sgn(bv[k][c]) >= 0
             /\ dist(Fv[k]) * Lq[k] <= mag * (Lq[k] + 1)
             /\ dist(Fv[k]) >= mag - 3
             /\ (mag = 0 => Fv[k] = <<0, 0>>)

\* C9: bar_force gives every node the sum of the forces of the bars it is the
\* first endpoint of, minus the sum over the bars it is the second endpoint
\* of, each force of magnitude max(L0 - L, 0) (up to the rounding of the
\* fixed-point arithmetic) along its bar; rows [0, nfix) are then zero, the
\* result has N rows, and before the zeroing all rows sum to zero
C9_ForceAccumulation ==
    pc = "move" =>
        \A Lq \in {LOf(p, bars)} : \A L0q \in {L0Of(p, bars)} :
        \A bv \in {barvecOf(p, bars)} : \A Fv \in {FvecOf(Lq, L0q, bv)} :
        \A raw \in {ToArray(Entries(bars, Fv), N)} :
            ForceAccumulated(Ftot, raw, bars, Lq, L0q, bv, Fv, N, nfix)

C9_Witness ==
    /\ pc = "move" /\ nfix > 0 /\ Len(bars) >= 3
    /\ \E k \in 1..N : k > nfix /\ Ftot[k] # <<0, 0>>
    /\ \E k \in 1..Len(bars) : bars[k][1] < nfix

\* C10: in every state of a session pold has as many rows as the Point Set and
\* N is that number, and after an operation that changed the row count pold
\* makes the next is_retriangulate test true
C10_PoldRowsAndReset ==
    Constructed =>
        /\ Len(pold) = Len(p)
        /\ N = Len(p)
        /\ (pc = "loop" /\ i < maxiter /\ pold = InfRows(N)
              => is_retriangulate = "true")

====
